---- MODULE Spec2Model ----
(***************************************************************************)
(* A model of src/src/main.rs: one run of the command-line tool, from the  *)
(* parsed command line and the constructed Docker client to the end of     *)
(* main.  Strings are sequences of characters (one-character TLA+ strings) *)
(* so that slicing, prefix stripping, joining and formatting are computed  *)
(* as the Rust code computes them.  The token "U+00E9" stands for a        *)
(* character whose UTF-8 encoding takes two bytes.                         *)
(***************************************************************************)
EXTENDS Integers, Sequences, FiniteSets, TLC

(***************************************************************************)
(* Bounds of the model.                                                    *)
(***************************************************************************)
\* Longest list of records the runtime returns in the "deep" replies.
MaxRecords == 2
\* Longest identifier body (characters after the optional "sha256:" prefix).
MaxIdLen == 13
\* Longest repo_tags list of an image record.
MaxTags == 2
\* Longest names list of a container record.
MaxNames == 2
\* Longest container name given to `ps kill`, drawn over NameChars.
MaxNameLen == 3

(***************************************************************************)
(* Program constants.                                                      *)
(***************************************************************************)
\* main.rs:122 and main.rs:175: the `[..12]` slices.
ShortIdLen == 12
\* main.rs:124: `size / (1024 as i64)`.
KiB == 1024

(***************************************************************************)
(* String literals of the program, as character sequences.                 *)
(***************************************************************************)
ValueForName ==
    <<"V", "a", "l", "u", "e", " ", "f", "o", "r", " ", "n", "a", "m", "e", ":", " ">>
ValueForConfig ==
    <<"V", "a", "l", "u", "e", " ", "f", "o", "r", " ", "c", "o", "n", "f", "i", "g", ":", " ">>
DebugOff ==
    <<"D", "e", "b", "u", "g", " ", "m", "o", "d", "e", " ", "i", "s", " ", "o", "f", "f">>
DebugKindOfOn ==
    <<"D", "e", "b", "u", "g", " ", "m", "o", "d", "e", " ", "i", "s", " ", "k", "i", "n", "d", " ", "o", "f", " ", "o", "n">>
DebugOn ==
    <<"D", "e", "b", "u", "g", " ", "m", "o", "d", "e", " ", "i", "s", " ", "o", "n">>
DebugCrazy ==
    <<"D", "o", "n", "'", "t", " ", "b", "e", " ", "c", "r", "a", "z", "y">>
AllRunningInfo ==
    <<"A", "l", "l", " ", "R", "u", "n", "n", "i", "n", "g", " ", "D", "o", "c", "k", "e", "r", " ", "C", "o", "n", "t", "a", "i", "n", "e", "r", "s", " ", "I", "n", "f", "o">>
KillsContainerId ==
    <<"K", "i", "l", "l", "s", " ", "C", "o", "n", "t", "a", "i", "n", "e", "r", " ", "I", "D", ":", " ">>
HdrId ==
    <<"I", "D">>
HdrImageTag ==
    <<"I", "m", "a", "g", "e", " ", "T", "a", "g">>
HdrSizeKb ==
    <<"S", "i", "z", "e", "(", "K", "B", ")">>
HdrContainerName ==
    <<"C", "o", "n", "t", "a", "i", "n", "e", "r", " ", "N", "a", "m", "e">>
HdrImage ==
    <<"I", "m", "a", "g", "e">>
HdrState ==
    <<"S", "t", "a", "t", "e">>
NotAvailable ==
    <<"n", "/", "a">>
JoinSep ==
    <<",", " ">>
Slash ==
    <<"/">>
Sha256Prefix ==
    <<"s", "h", "a", "2", "5", "6", ":">>
Sigterm ==
    "SIGTERM"

(***************************************************************************)
(* Option<T> and the outcome of an expression that may panic.              *)
(***************************************************************************)
None ==
    [some |-> FALSE, val |-> <<>>]
Some(v) ==
    [some |-> TRUE, val |-> v]
Panicked ==
    [ok |-> FALSE, val |-> <<>>]
Value(v) ==
    [ok |-> TRUE, val |-> v]

(***************************************************************************)
(* str and integer primitives of the Rust standard library, as main.rs     *)
(* uses them.                                                              *)
(***************************************************************************)
Take(s, n) ==
    SubSeq(s, 1, IF n < Len(s) THEN n ELSE Len(s))

\* Bytes of the UTF-8 encoding of one character.
Utf8Len(c) ==
    IF c = "U+00E9" THEN 2 ELSE 1

RECURSIVE ByteLen(_)
\* str::len: the length in bytes.
ByteLen(s) ==
    IF s = <<>> THEN 0 ELSE Utf8Len(Head(s)) + ByteLen(Tail(s))

\* &s[..n]: the first n BYTES of s; panics when n is past the end of s or
\* falls inside a character.
SliceTo(s, n) ==
    LET ks == {k \in 0..Len(s) : ByteLen(SubSeq(s, 1, k)) = n}
    IN  IF ks = {} THEN Panicked ELSE Value(SubSeq(s, 1, CHOOSE k \in ks : TRUE))

\* str::strip_prefix: Some(rest) when s starts with p, None otherwise.
StripPrefix(s, p) ==
    IF Len(s) >= Len(p) /\ SubSeq(s, 1, Len(p)) = p
    THEN Some(SubSeq(s, Len(p) + 1, Len(s)))
    ELSE None

RECURSIVE Join(_, _)
\* [String]::join(sep).
Join(v, sep) ==
    IF v = <<>> THEN <<>>
    ELSE IF Len(v) = 1 THEN v[1]
    ELSE v[1] \o sep \o Join(Tail(v), sep)

\* i64 division truncates toward zero.
I64Div(a, b) ==
    IF a >= 0 THEN a \div b ELSE -((-a) \div b)

Digit(d) ==
    <<"0", "1", "2", "3", "4", "5", "6", "7", "8", "9">>[d + 1]

RECURSIVE NatToString(_)
NatToString(n) ==
    IF n < 10 THEN <<Digit(n)>> ELSE NatToString(n \div 10) \o <<Digit(n % 10)>>

\* i64::to_string: the decimal rendering.
I64ToString(n) ==
    IF n < 0 THEN <<"-">> \o NatToString(-n) ELSE NatToString(n)

\* char::escape_debug as Debug for str applies it.
EscapeDebug(c) ==
    IF c = "\"" THEN <<"\\", "\"">>
    ELSE IF c = "\\" THEN <<"\\", "\\">>
    ELSE <<c>>

RECURSIVE EscapeAll(_)
EscapeAll(s) ==
    IF s = <<>> THEN <<>> ELSE EscapeDebug(Head(s)) \o EscapeAll(Tail(s))

\* Mutant of DebugFmt: `{}` in place of `{:?}`.
DebugFmt_Display(s) ==
    s

\* `{:?}` of a String: the escaped characters between double quotes.
DebugFmt(s) ==
    <<"\"">> \o EscapeAll(s) \o <<"\"">>

\* `{}` of a String or of a Path::display().
DisplayFmt(s) ==
    s

(***************************************************************************)
(* Table rows (prettytable).                                               *)
(***************************************************************************)
HeaderRow(cells) ==
    [bold |-> TRUE, cells |-> cells]
DataRow(cells) ==
    [bold |-> FALSE, cells |-> cells]
ImageHeader ==
    HeaderRow(<<HdrId, HdrImageTag, HdrSizeKb>>)
ContainerHeader ==
    HeaderRow(<<HdrId, HdrContainerName, HdrImage, HdrState>>)

(***************************************************************************)
(* The row of one ImageSummary, main.rs:121-125.  Each unwrap() and the    *)
(* slice may panic.                                                        *)
(***************************************************************************)
\* id.strip_prefix("sha256:").unwrap()[..12]
ImageShortId(id) ==
    LET stripped == StripPrefix(id, Sha256Prefix)
    IN  IF stripped.some THEN SliceTo(stripped.val, ShortIdLen) ELSE Panicked

\* repo_tags.iter().next().unwrap()
PrimaryTag(repo_tags) ==
    IF repo_tags = <<>> THEN Panicked ELSE Value(repo_tags[1])

\* Mutant of SizeKbCell: kilobytes of 1000 bytes.
SizeKbCell_Div1000(size) ==
    I64ToString(I64Div(size, 1000))

\* (size / (1024 as i64)).to_string()
SizeKbCell(size) ==
    I64ToString(I64Div(size, KiB))

ImageRow(img) ==
    LET short == ImageShortId(img.id)
        tag   == PrimaryTag(img.repo_tags)
    IN  IF short.ok /\ tag.ok
        THEN Value(DataRow(<<short.val, tag.val, SizeKbCell(img.size)>>))
        ELSE Panicked

(***************************************************************************)
(* The row of one ContainerSummary, main.rs:174-185.                       *)
(***************************************************************************)
UnwrapOr(opt, default) ==
    IF opt.some THEN opt.val ELSE default

\* id.as_deref().unwrap_or("")[..12]
ContainerShortId(id) ==
    SliceTo(UnwrapOr(id, <<>>), ShortIdLen)

\* names.as_ref().map_or_else(|| "n/a".to_string(), |vec| vec.join(", "))
\*      .strip_prefix("/").unwrap_or_else(|| "n/a")
DisplayName(names) ==
    LET joined == IF names.some THEN Join(names.val, JoinSep) ELSE NotAvailable
    IN  UnwrapOr(StripPrefix(joined, Slash), NotAvailable)

ContainerRow(c) ==
    LET short == ContainerShortId(c.id)
    IN  IF short.ok
        THEN Value(DataRow(<<short.val, DisplayName(c.names),
                             UnwrapOr(c.image, <<>>), UnwrapOr(c.state, <<>>)>>))
        ELSE Panicked

(***************************************************************************)
(* Requests to the runtime, as bollard's option structs carry them.        *)
(***************************************************************************)
Request(call, all, filters, target, signal) ==
    [call |-> call, all |-> all, filters |-> filters, target |-> target, signal |-> signal]

\* ListImagesOptions { all: true, ..Default::default() }
ListImagesRequest ==
    Request("list_images", TRUE, {}, <<>>, "")

\* Mutant of ListContainersRequest: the status filter is left out.
ListContainersRequest_NoFilter ==
    Request("list_containers", TRUE, {}, <<>>, "")

\* ListContainersOptions { all: true, filters: {"status": ["running"]}, .. }
ListContainersRequest ==
    Request("list_containers", TRUE, {<<"status", <<"running">>>>}, <<>>, "")

\* kill_container(container_name, Some(KillContainerOptions { signal: "SIGTERM" }))
KillRequest(container_name) ==
    Request("kill_container", FALSE, {}, container_name, Sigterm)

(***************************************************************************)
(* Inputs: the parsed command line and what the runtime answers.           *)
(***************************************************************************)
SeqsUpTo(S, n) ==
    UNION {[1..k -> S] : k \in 0..n}

Hex ==
    <<"a", "b", "c", "d", "e", "f", "1", "2", "3", "4", "5", "6", "7", "8", "9", "0">>
\* Hex with a two-byte character as its 12th character: byte 12 is inside it.
HexWide12 ==
    [Hex EXCEPT ![ShortIdLen] = "U+00E9"]
\* Hex with a two-byte character first: 12 bytes are 11 characters.
WideHex ==
    [Hex EXCEPT ![1] = "U+00E9"]
IdPatterns ==
    {Hex, HexWide12, WideHex}
IdBodies ==
    {Take(p, n) : p \in IdPatterns, n \in {0} \cup ((ShortIdLen - 1)..MaxIdLen)}
ImageIds ==
    {pre \o b : pre \in {Sha256Prefix, <<>>}, b \in IdBodies}

TagLatest ==
    <<"a", "p", "p", ":", "l", "a", "t", "e", "s", "t">>
TagV1 ==
    <<"a", "p", "p", ":", "v", "1">>
TagV2 ==
    <<"a", "p", "p", ":", "v", "2">>
TagV3 ==
    <<"a", "p", "p", ":", "v", "3">>
TagLists ==
    {Take(<<TagLatest, TagV1, TagV2, TagV3>>, n) : n \in 0..MaxTags}
ImageSizes ==
    {-1, 0, 1023, 1024, 2048000}

\* Every image record of the bounds: replies of one record draw from these.
ImageRecords ==
    [id : ImageIds, size : ImageSizes, repo_tags : TagLists]
\* A few image records, well-formed and malformed: longer replies draw from these.
ImageSamples ==
    [id : {Sha256Prefix \o Hex, Hex, Sha256Prefix \o Take(Hex, ShortIdLen - 1)},
     size : {1024, 2048000},
     repo_tags : {<<>>, <<TagLatest>>}]

Web1 ==
    <<"/", "w", "e", "b", "-", "1">>
SlashA ==
    <<"/", "a">>
SlashB ==
    <<"/", "b">>
BareB ==
    <<"b">>
Nginx ==
    <<"n", "g", "i", "n", "x">>
Running ==
    <<"r", "u", "n", "n", "i", "n", "g">>
Options(S) ==
    {None} \cup {Some(v) : v \in S}

ContainerRecords ==
    [id : Options(IdBodies),
     names : Options(SeqsUpTo({SlashA, SlashB, BareB}, MaxNames)),
     image : Options({Nginx}),
     state : Options({Running})]
ContainerSamples ==
    [id : Options({Hex}),
     names : Options({<<Web1>>}),
     image : {Some(Nginx)},
     state : Options({Running})]

Ok(records) ==
    [status |-> "ok", records |-> records]
Err(status) ==
    [status |-> status, records |-> <<>>]

\* What the runtime answers to list_images / list_containers: an error, one
\* record of any shape, or up to MaxRecords sample records.
ListReplies(all, samples) ==
    {Err("transport_error")}
        \cup {Ok(<<r>>) : r \in all}
        \cup {Ok(l) : l \in SeqsUpTo(samples, MaxRecords)}

\* What the runtime would answer to kill_container.
KillReplies ==
    {Ok(<<>>), Err("no_such_container"), Err("transport_error")}

NameChars ==
    {"w", "-", "\"", "\\"}
\* The container_name argument of `ps kill`.
KillNames ==
    SeqsUpTo(NameChars, MaxNameLen) \cup {Tail(Web1)}

Command(kind, container_name) ==
    [kind |-> kind, container_name |-> container_name]
Commands ==
    {Command(k, <<>>) : k \in {"none", "img_list", "ps_info"}}
        \cup {Command("ps_kill", n) : n \in KillNames}

\* struct Cli, main.rs:23-37.  debug is a u8 count of -d flags.
Clis ==
    [name : Options({<<"w">>}),
     config : Options({<<"c">>}),
     debug : {0, 1, 2, 255},
     command : Commands]

RepliesFor(command) ==
    CASE command.kind = "img_list" -> ListReplies(ImageRecords, ImageSamples)
      [] command.kind = "ps_info"  -> ListReplies(ContainerRecords, ContainerSamples)
      [] command.kind = "ps_kill"  -> KillReplies
      [] OTHER                     -> {Ok(<<>>)}

(***************************************************************************)
(* State of one run.                                                       *)
(***************************************************************************)
VARIABLES
    cli,        \* the parsed command line (Cli::parse(), main.rs:81)
    reply,      \* what the runtime answers to this run's call
    pc,         \* position in main: "start", "dispatch", "img_rows", "ps_rows", "done"
    requests,   \* requests the transport client has sent, in order
    dropped,    \* request futures created and dropped without being polled
    table,      \* rows added to the table under construction
    stdout,     \* what has been written to standard output, in order
    outcome     \* "running", "ok" (Ok(())), "err" (main returned Err), "panic"

vars ==
    <<cli, reply, pc, requests, dropped, table, stdout, outcome>>

Line(text) ==
    [kind |-> "line", text |-> text, rows |-> <<>>]
Printed(rows) ==
    [kind |-> "table", text |-> <<>>, rows |-> rows]

\* After Cli::parse() and Docker::connect_with_socket_defaults().unwrap().
Init ==
    /\ cli \in Clis
    /\ reply \in RepliesFor(cli.command)
    /\ pc = "start"
    /\ requests = <<>>
    /\ dropped = <<>>
    /\ table = <<>>
    /\ stdout = <<>>
    /\ outcome = "running"

\* main.rs:95-100
DebugLine(debug) ==
    CASE debug = 0 -> DebugOff
      [] debug = 1 -> DebugKindOfOn
      [] debug = 2 -> DebugOn
      [] OTHER     -> DebugCrazy

\* main.rs:85-100: the lines about name, config and debug.
Prelude ==
    /\ pc = "start"
    /\ stdout' = stdout
            \o (IF cli.name.some
                THEN <<Line(ValueForName \o DisplayFmt(cli.name.val))>> ELSE <<>>)
            \o (IF cli.config.some
                THEN <<Line(ValueForConfig \o DisplayFmt(cli.config.val))>> ELSE <<>>)
            \o <<Line(DebugLine(cli.debug))>>
    /\ pc' = "dispatch"
    /\ UNCHANGED <<cli, reply, requests, dropped, table, outcome>>

\* Mutant of ImgListCall: `?` in place of unwrap().
ImgListCall_Propagates ==
    /\ pc = "dispatch"
    /\ cli.command.kind = "img_list"
    /\ requests' = Append(requests, ListImagesRequest)
    /\ IF reply.status = "ok"
       THEN /\ table' = <<ImageHeader>>
            /\ pc' = "img_rows"
            /\ UNCHANGED outcome
       ELSE /\ outcome' = "err"
            /\ pc' = "done"
            /\ UNCHANGED table
    /\ UNCHANGED <<cli, reply, dropped, stdout>>

\* main.rs:108-118: list_images(..).await.unwrap(), then the table and its header.
ImgListCall ==
    /\ pc = "dispatch"
    /\ cli.command.kind = "img_list"
    /\ requests' = Append(requests, ListImagesRequest)
    /\ IF reply.status = "ok"
       THEN /\ table' = <<ImageHeader>>
            /\ pc' = "img_rows"
            /\ UNCHANGED outcome
       ELSE /\ outcome' = "panic"
            /\ pc' = "done"
            /\ UNCHANGED table
    /\ UNCHANGED <<cli, reply, dropped, stdout>>

\* Mutant of ImgListRow: the table is printed as each row is added.
ImgListRow_PrintsEachRow ==
    /\ pc = "img_rows"
    /\ Len(table) - 1 < Len(reply.records)
    /\ LET row == ImageRow(reply.records[Len(table)])
       IN  IF row.ok
           THEN /\ table' = Append(table, row.val)
                /\ stdout' = Append(stdout, Printed(table'))
                /\ UNCHANGED <<pc, outcome>>
           ELSE /\ outcome' = "panic"
                /\ pc' = "done"
                /\ UNCHANGED <<table, stdout>>
    /\ UNCHANGED <<cli, reply, requests, dropped>>

\* main.rs:120-128: one iteration of the loop over the images.
ImgListRow ==
    /\ pc = "img_rows"
    /\ Len(table) - 1 < Len(reply.records)
    /\ LET row == ImageRow(reply.records[Len(table)])
       IN  IF row.ok
           THEN /\ table' = Append(table, row.val)
                /\ UNCHANGED <<pc, outcome>>
           ELSE /\ outcome' = "panic"
                /\ pc' = "done"
                /\ UNCHANGED table
    /\ UNCHANGED <<cli, reply, requests, dropped, stdout>>

\* main.rs:130-137: printstd() and Ok(()).
ImgListPrint ==
    /\ pc = "img_rows"
    /\ Len(table) - 1 = Len(reply.records)
    /\ stdout' = Append(stdout, Printed(table))
    /\ outcome' = "ok"
    /\ pc' = "done"
    /\ UNCHANGED <<cli, reply, requests, dropped, table>>

\* Mutant of PsInfoCall: an error of the call is taken for an empty list.
PsInfoCall_SwallowsError ==
    /\ pc = "dispatch"
    /\ cli.command.kind = "ps_info"
    /\ requests' = Append(requests, ListContainersRequest)
    /\ table' = <<ContainerHeader>>
    /\ pc' = "ps_rows"
    /\ UNCHANGED <<cli, reply, dropped, stdout, outcome>>

\* main.rs:143-164: list_containers(..).await?, then the table and its header.
PsInfoCall ==
    /\ pc = "dispatch"
    /\ cli.command.kind = "ps_info"
    /\ requests' = Append(requests, ListContainersRequest)
    /\ IF reply.status = "ok"
       THEN /\ table' = <<ContainerHeader>>
            /\ pc' = "ps_rows"
            /\ UNCHANGED outcome
       ELSE /\ outcome' = "err"
            /\ pc' = "done"
            /\ UNCHANGED table
    /\ UNCHANGED <<cli, reply, dropped, stdout>>

\* main.rs:166-188: one iteration of the loop over the containers.
PsInfoRow ==
    /\ pc = "ps_rows"
    /\ Len(table) - 1 < Len(reply.records)
    /\ LET row == ContainerRow(reply.records[Len(table)])
       IN  IF row.ok
           THEN /\ table' = Append(table, row.val)
                /\ UNCHANGED <<pc, outcome>>
           ELSE /\ outcome' = "panic"
                /\ pc' = "done"
                /\ UNCHANGED table
    /\ UNCHANGED <<cli, reply, requests, dropped, stdout>>

\* main.rs:191-193: printstd(), the closing line, Ok(()).
PsInfoPrint ==
    /\ pc = "ps_rows"
    /\ Len(table) - 1 = Len(reply.records)
    /\ stdout' = stdout \o <<Printed(table), Line(AllRunningInfo)>>
    /\ outcome' = "ok"
    /\ pc' = "done"
    /\ UNCHANGED <<cli, reply, requests, dropped, table>>

\* main.rs:196-204.  kill_container is an async fn: the call only creates a
\* future, which is never awaited and is dropped at the end of the statement,
\* so no request is sent.
PsKill ==
    /\ pc = "dispatch"
    /\ cli.command.kind = "ps_kill"
    /\ dropped' = Append(dropped, KillRequest(cli.command.container_name))
    /\ stdout' = Append(stdout,
                        Line(KillsContainerId \o DebugFmt(cli.command.container_name)))
    /\ outcome' = "ok"
    /\ pc' = "done"
    /\ UNCHANGED <<cli, reply, requests, table>>

\* main.rs:206: no subcommand.
NoCommand ==
    /\ pc = "dispatch"
    /\ cli.command.kind = "none"
    /\ outcome' = "ok"
    /\ pc' = "done"
    /\ UNCHANGED <<cli, reply, requests, dropped, table, stdout>>

Next ==
    \/ Prelude
    \/ ImgListCall
    \/ ImgListRow
    \/ ImgListPrint
    \/ PsInfoCall
    \/ PsInfoRow
    \/ PsInfoPrint
    \/ PsKill
    \/ NoCommand

Spec ==
    Init /\ [][Next]_vars

(***************************************************************************)
(* Vocabulary of the properties.                                           *)
(***************************************************************************)
Kind ==
    cli.command.kind
Done ==
    pc = "done"
Dispatched ==
    pc \notin {"start", "dispatch"}
Records ==
    reply.records
PrintedTables ==
    SelectSeq(stdout, LAMBDA it : it.kind = "table")
PrintedLines ==
    SelectSeq(stdout, LAMBDA it : it.kind = "line")
StartsWith(s, p) ==
    Len(s) >= Len(p) /\ SubSeq(s, 1, Len(p)) = p
\* needle occurs in hay, character for character.
Contains(hay, needle) ==
    \E i \in 0..(Len(hay) - Len(needle)) : SubSeq(hay, i + 1, i + Len(needle)) = needle
\* A process-level error: main returned Err, or the process panicked.
ProcessError ==
    outcome \in {"err", "panic"}
\* The confirmation lines of `ps kill` on standard output.
ConfirmationLines ==
    SelectSeq(PrintedLines, LAMBDA it : StartsWith(it.text, KillsContainerId))

(***************************************************************************)
(* C1.  In every run of `ps kill <name>` with a non-empty name, exactly    *)
(* one kill request reaches the transport client before the run ends, with *)
(* target = the name and signal = "SIGTERM".                               *)
(* Fails: the future kill_container returns is never awaited, so the run   *)
(* ends with no request sent.                                              *)
(***************************************************************************)
C1_ExactlyOneKillRequest ==
    (Done /\ Kind = "ps_kill" /\ cli.command.container_name # <<>>)
        => /\ Len(requests) = 1
           /\ requests[1].call = "kill_container"
           /\ requests[1].target = cli.command.container_name
           /\ requests[1].signal = "SIGTERM"

(***************************************************************************)
(* C2.  Container normalisation in `ps info` never fails: every record,    *)
(* with id absent or present (of any length), yields a 4-column row whose  *)
(* ID column is the first 12 characters of the id when present and empty   *)
(* when absent, and the run never aborts because of a sparse record.       *)
(* Fails: `unwrap_or("")[..12]` panics on an absent or short id.           *)
(***************************************************************************)
C2_ContainerNormalisationNeverFails ==
    (Kind = "ps_info" /\ reply.status = "ok")
        => /\ outcome # "panic"
           /\ Done => Len(table) = Len(Records) + 1
           /\ \A i \in 2..Len(table) :
                LET c == Records[i - 1]
                IN  /\ Len(table[i].cells) = 4
                    /\ table[i].cells[1] =
                         (IF c.id.some THEN Take(c.id.val, ShortIdLen) ELSE <<>>)
                    /\ table[i].cells[3] = (IF c.image.some THEN c.image.val ELSE <<>>)
                    /\ table[i].cells[4] = (IF c.state.some THEN c.state.val ELSE <<>>)

(***************************************************************************)
(* C3.  The display name equals the reference function: "n/a" when names   *)
(* is absent or empty; otherwise the names joined with ", ", with one      *)
(* leading "/" removed when there is one and unchanged when there is none. *)
(* Fails: a joined string without a leading "/" is displayed as "n/a".     *)
(***************************************************************************)
RefDisplayName(names) ==
    IF ~names.some \/ names.val = <<>>
    THEN NotAvailable
    ELSE LET joined == Join(names.val, JoinSep)
         IN  IF joined # <<>> /\ Head(joined) = "/" THEN Tail(joined) ELSE joined

C3_DisplayNameIsReference ==
    (Kind = "ps_info" /\ reply.status = "ok")
        => \A i \in 2..Len(table) :
              table[i].cells[2] = RefDisplayName(Records[i - 1].names)

(***************************************************************************)
(* C4.  `img list` on a malformed record (an identifier without the        *)
(* "sha256:" prefix, or an empty tag list) ends in a reported error, never *)
(* in a panic, and emits no row for that record.                           *)
(* Fails: both unwrap() calls panic.                                       *)
(***************************************************************************)
Malformed(img) ==
    ~StartsWith(img.id, Sha256Prefix) \/ img.repo_tags = <<>>

C4_MalformedImageIsReported ==
    (Kind = "img_list" /\ reply.status = "ok"
        /\ \E i \in 1..Len(Records) : Malformed(Records[i]))
        => /\ outcome # "panic"
           /\ Done => outcome = "err"
           /\ \A i \in 2..Len(table) : ~Malformed(Records[i - 1])

(***************************************************************************)
(* C5.  For every image record whose identifier is "sha256:" followed by   *)
(* at least 12 characters, with a non-empty tag list and a non-negative    *)
(* size, the row is (the first 12 characters after the prefix, the first   *)
(* tag, the decimal string of floor(size / 1024)).                         *)
(***************************************************************************)
AfterPrefix(id) ==
    SubSeq(id, Len(Sha256Prefix) + 1, Len(id))

\* The precondition as the claim states it.
WellFormedImage(img) ==
    /\ StartsWith(img.id, Sha256Prefix)
    /\ Len(AfterPrefix(img.id)) >= ShortIdLen
    /\ img.repo_tags # <<>>
    /\ img.size >= 0

\* The precondition under which the code meets it: the 12 characters are
\* single-byte ones, as the hexadecimal digits of a digest are.
WellFormedAsciiImage(img) ==
    /\ WellFormedImage(img)
    /\ \A k \in 1..ShortIdLen : Utf8Len(AfterPrefix(img.id)[k]) = 1

DigitValue(ch) ==
    CHOOSE d \in 0..9 : Digit(d) = ch

RECURSIVE DecimalValue(_)
DecimalValue(s) ==
    IF s = <<>> THEN 0 ELSE 10 * DecimalValue(SubSeq(s, 1, Len(s) - 1)) + DigitValue(s[Len(s)])

\* s is the decimal string of the natural number n.
IsDecimalOf(s, n) ==
    /\ s # <<>>
    /\ \A k \in 1..Len(s) : \E d \in 0..9 : Digit(d) = s[k]
    /\ Len(s) > 1 => s[1] # "0"
    /\ DecimalValue(s) = n

ExpectedImageRow(row, img) ==
    /\ Len(row.cells) = 3
    /\ row.cells[1] = SubSeq(AfterPrefix(img.id), 1, ShortIdLen)
    /\ row.cells[2] = img.repo_tags[1]
    /\ IsDecimalOf(row.cells[3], img.size \div KiB)

\* The loop has gone past record i: its row is in the table, or the run ended.
ImageHandled(i) ==
    Done \/ Len(table) > i

\* C5 as stated: violated by an identifier with a two-byte character among
\* the first 12 after the prefix.
C5_RowOfWellFormedImage ==
    (Kind = "img_list" /\ reply.status = "ok")
        => \A i \in 1..Len(Records) :
              ((\A j \in 1..i : WellFormedImage(Records[j])) /\ ImageHandled(i))
                  => /\ Len(table) > i
                     /\ ExpectedImageRow(table[i + 1], Records[i])

\* C5 amended: the same for identifiers whose first 12 characters after the
\* prefix are single-byte characters.
C5_RowOfWellFormedAsciiImage ==
    (Kind = "img_list" /\ reply.status = "ok")
        => \A i \in 1..Len(Records) :
              ((\A j \in 1..i : WellFormedAsciiImage(Records[j])) /\ ImageHandled(i))
                  => /\ Len(table) > i
                     /\ ExpectedImageRow(table[i + 1], Records[i])

\* The example of the claim: id "sha256:abcdef123456...", size 2048000, tags
\* ["app:latest"] has been printed as ("abcdef123456", "app:latest", "2000").
C5_Witness ==
    /\ Done
    /\ Kind = "img_list"
    /\ outcome = "ok"
    /\ Records = <<[id |-> Sha256Prefix \o Hex, size |-> 2048000, repo_tags |-> <<TagLatest>>]>>
    /\ PrintedTables # <<>>
    /\ PrintedTables[1].rows[2].cells
         = <<Take(Hex, ShortIdLen), TagLatest, <<"2", "0", "0", "0">>>>

(***************************************************************************)
(* C6.  Table output is all-or-nothing in both listing commands: either a  *)
(* table holding the header and one row for every record returned, in the  *)
(* returned order, is printed, or no table row at all is printed.  When    *)
(* `img list` receives a well-formed image followed by an image with an    *)
(* empty tag list, the command fails and the first row is never printed.   *)
(***************************************************************************)
RowOf(record) ==
    IF Kind = "img_list" THEN ImageRow(record) ELSE ContainerRow(record)

FullTable(rows) ==
    /\ reply.status = "ok"
    /\ Len(rows) = Len(Records) + 1
    /\ rows[1] = (IF Kind = "img_list" THEN ImageHeader ELSE ContainerHeader)
    /\ \A i \in 1..Len(Records) : RowOf(Records[i]).ok /\ rows[i + 1] = RowOf(Records[i]).val

\* A well-formed image followed by an image with an empty tag list.
GoodThenUntagged ==
    /\ Kind = "img_list"
    /\ reply.status = "ok"
    /\ Len(Records) = 2
    /\ WellFormedAsciiImage(Records[1])
    /\ StartsWith(Records[2].id, Sha256Prefix)
    /\ Records[2].repo_tags = <<>>

C6_TableAllOrNothing ==
    /\ Len(PrintedTables) <= 1
    /\ \A k \in 1..Len(PrintedTables) : FullTable(PrintedTables[k].rows)
    /\ GoodThenUntagged => /\ PrintedTables = <<>>
                           /\ outcome # "ok"
                           /\ Done => ProcessError

\* The first image's row was built, the second image ended the run, and
\* nothing of the table reached standard output.
C6_Witness ==
    /\ GoodThenUntagged
    /\ Done
    /\ Len(table) = 2
    /\ outcome = "panic"
    /\ PrintedTables = <<>>

(***************************************************************************)
(* C7.  When the list-containers call of `ps info` fails, the error is     *)
(* propagated out of the command as the process-level error result: the    *)
(* run does not end in ordinary success, no container table is printed,    *)
(* and the closing "All Running Docker Containers Info" line is not        *)
(* printed.                                                                *)
(***************************************************************************)
C7_PsInfoErrorPropagated ==
    (Kind = "ps_info" /\ reply.status # "ok")
        => /\ outcome # "ok"
           /\ Done => outcome = "err"
           /\ Dispatched => Done
           /\ PrintedTables = <<>>
           /\ \A k \in 1..Len(PrintedLines) : PrintedLines[k].text # AllRunningInfo

C7_Witness ==
    /\ Kind = "ps_info"
    /\ reply.status = "transport_error"
    /\ Done
    /\ outcome = "err"
    /\ Len(requests) = 1

(***************************************************************************)
(* C8.  A failure of the list-images call (`img list`) or of the kill call *)
(* (`ps kill`) is swallowed inside the command: a run in which the runtime *)
(* call fails does not end in a process-level error.                       *)
(***************************************************************************)
\* C8 as stated: violated by `img list`, whose unwrap() panics.
C8_FailureSwallowed ==
    (Done /\ Kind \in {"img_list", "ps_kill"} /\ reply.status # "ok")
        => ~ProcessError

\* C8 amended: neither failure is returned from main as an error; a failed
\* list-images call panics (a process-level error, with no table printed),
\* and a failing kill goes unobserved and the run ends in ordinary success.
\* Only `ps info` returns the error.
C8_FailureNotReturned ==
    (Done /\ reply.status # "ok")
        => /\ Kind = "img_list" => (outcome = "panic" /\ PrintedTables = <<>>)
           /\ Kind = "ps_kill" => outcome = "ok"
           /\ outcome = "err" <=> Kind = "ps_info"

C8_Witness ==
    /\ Done
    /\ Kind = "img_list"
    /\ reply.status = "transport_error"
    /\ requests = <<ListImagesRequest>>
    /\ outcome = "panic"

(***************************************************************************)
(* C9.  Each listing run makes exactly one runtime call, whatever number   *)
(* of records comes back: `img list` one list-images request with          *)
(* all = true, `ps info` one list-containers request with all = true and   *)
(* filters = {status: [running]}.  No inspect-container call and no retry  *)
(* is ever issued by any command.                                          *)
(***************************************************************************)
C9_OneCallPerListing ==
    /\ Len(requests) <= 1
    /\ \A k \in 1..Len(requests) : requests[k].call # "inspect_container"
    /\ ~Dispatched => requests = <<>>
    /\ (Dispatched /\ Kind = "img_list")
          => /\ Len(requests) = 1
             /\ requests[1].call = "list_images"
             /\ requests[1].all = TRUE
    /\ (Dispatched /\ Kind = "ps_info")
          => /\ Len(requests) = 1
             /\ requests[1].call = "list_containers"
             /\ requests[1].all = TRUE
             /\ requests[1].filters = {<<"status", <<"running">>>>}

\* A `ps info` run over several records has ended with its one request sent.
C9_Witness ==
    /\ Done
    /\ Kind = "ps_info"
    /\ outcome = "ok"
    /\ Len(Records) >= 2
    /\ Len(requests) = 1
    /\ requests[1].call = "list_containers"

(***************************************************************************)
(* C10.  Every run of `ps kill <name>` prints a confirmation line that     *)
(* contains the name verbatim, for every name string, and then ends in     *)
(* ordinary success, independent of the runtime's outcome for the kill.    *)
(***************************************************************************)
\* C10 as stated: violated by a name with a double quote or a backslash,
\* which `{:?}` escapes.
C10_ConfirmationNamesVerbatim ==
    (Done /\ Kind = "ps_kill")
        => /\ outcome = "ok"
           /\ Len(ConfirmationLines) = 1
           /\ Contains(ConfirmationLines[1].text, cli.command.container_name)

\* No character of s is one that Debug formatting escapes.
NoEscapedChar(s) ==
    \A k \in 1..Len(s) : s[k] \notin {"\"", "\\"}

RECURSIVE Unescape(_)
\* Reads a backslash-escaped string back.
Unescape(s) ==
    IF s = <<>> THEN <<>>
    ELSE IF Head(s) = "\\" /\ Len(s) >= 2
         THEN <<s[2]>> \o Unescape(SubSeq(s, 3, Len(s)))
         ELSE <<Head(s)>> \o Unescape(Tail(s))

\* C10 amended: the confirmation line is "Kills Container ID: " followed by
\* the name between double quotes with its double quotes and backslashes
\* escaped; it contains the name verbatim when the name has no such
\* character; the run ends in ordinary success whatever the runtime would
\* answer.
C10_ConfirmationNamesDebugForm ==
    (Done /\ Kind = "ps_kill")
        => /\ outcome = "ok"
           /\ Len(ConfirmationLines) = 1
           /\ stdout[Len(stdout)] = ConfirmationLines[1]
           /\ LET name   == cli.command.container_name
                  text   == ConfirmationLines[1].text
                  quoted == SubSeq(text, Len(KillsContainerId) + 1, Len(text))
                  inner  == SubSeq(quoted, 2, Len(quoted) - 1)
              IN  /\ Len(quoted) >= 2
                  /\ quoted[1] = "\""
                  /\ quoted[Len(quoted)] = "\""
                  /\ Unescape(inner) = name
                  /\ Len(inner) = Len(name) + Cardinality({k \in 1..Len(name) : name[k] \in {"\"", "\\"}})
                  /\ NoEscapedChar(name) => (inner = name /\ Contains(text, name))

\* `ps kill web-1` has ended in success although the runtime has no such
\* container, and the line names web-1.
C10_Witness ==
    /\ Done
    /\ Kind = "ps_kill"
    /\ cli.command.container_name = <<"w", "e", "b", "-", "1">>
    /\ reply.status = "no_such_container"
    /\ outcome = "ok"
    /\ Contains(stdout[Len(stdout)].text, <<"w", "e", "b", "-", "1">>)
====
